---- MODULE Spec2Model ----
(***************************************************************************)
(* InstaLeBot: the paginated feed aggregation of InstagramService          *)
(* (get_user_feed, get_video_feed) and the retrying fetcher                *)
(* RapidAPIClient.get.                                                     *)
(*                                                                         *)
(* Python strings are sequences of one-character strings.  A value that    *)
(* may be missing is such a sequence too: Absent stands for a key that is  *)
(* not in the dict, NoneVal for None / JSON null.                          *)
(***************************************************************************)
EXTENDS Integers, Sequences, FiniteSets, TLC

\* ------------------------------------------------------------ constants
\* max_pages = 50 in get_user_feed and get_video_feed
MaxPages == 50
\* retries: int = 3, the default attempt budget of RapidAPIClient.get
DefaultRetries == 3
\* post_text.strip()[:100]
TextKeyLen == 100
\* delay = 3 between pagination requests
PageDelay == 3
\* "delay = 2" before the request of get_user_reels, in seconds
ReelsDelay == 2
\* "delay = 1.5" between the requests of get_user_info, in tenths of a second
InfoDelay == 15

\* ------------------------------------------------------------ bounds
\* an upstream feed of item pages has at most MaxContentPages pages: its
\* last page carries no cursor
MaxContentPages == 2
\* each page carries at most MaxPageLen items
MaxPageLen == 2
\* RapidAPIClient.get is called with retries in 0..MaxRetries
MaxRetries == 3
\* the two calls on one sequence of responses are followed for MaxPairPages pages
MaxPairPages == 4
\* two interleaved calls are followed for MaxTwoPages pages each
MaxTwoPages == 2
\* the dedupe loop alone is run on pages of at most MaxDedupeLen items
MaxDedupeLen == 3

\* ------------------------------------------------------------ values
Absent == <<"<absent>">>
NoneVal == <<"<None>">>

\* Python truthiness of an optional string: None, a missing key and "" are falsy
Truthy(v) == v # Absent /\ v # NoneVal /\ v # <<>>

\* d.get(k): None when the key is missing
DictGet(v) == IF v = Absent THEN NoneVal ELSE v

\* a or b
PyOr(a, b) == IF Truthy(a) THEN a ELSE b

\* str(x) of None or of a string
PyStr(v) == IF v = NoneVal THEN <<"N", "o", "n", "e">> ELSE v

RECURSIVE LStrip(_)
LStrip(s) == IF s # <<>> /\ Head(s) = " " THEN LStrip(Tail(s)) ELSE s

RECURSIVE RStrip(_)
RStrip(s) ==
  IF s # <<>> /\ s[Len(s)] = " " THEN RStrip(SubSeq(s, 1, Len(s) - 1)) ELSE s

\* str.strip()
Strip(s) == RStrip(LStrip(s))

\* s[:n]
Prefix(s, n) == SubSeq(s, 1, IF Len(s) < n THEN Len(s) ELSE n)

\* ------------------------------------------------------------ items
\* One element of a page.  isdict = FALSE is a JSON value that is no object.
BlankCaption == [kind |-> "absent", text |-> Absent]

BlankItem ==
  [isdict |-> TRUE, media |-> <<>>, caption |-> BlankCaption, text |-> Absent,
   image_url |-> Absent, candidates |-> <<>>, cover_photo |-> Absent,
   thumbnail_url |-> Absent, video_versions |-> <<>>, carousel_media |-> <<>>,
   id |-> Absent, pk |-> Absent, media_id |-> Absent, code |-> Absent]

NonDictItem == [BlankItem EXCEPT !.isdict = FALSE]

\* the caption/text of a post, as the dedupe pass reads it
PostText(post) ==
  IF ~post.isdict THEN <<>>
  ELSE IF post.caption.kind = "dict" THEN
         (IF post.caption.text = Absent THEN <<>> ELSE post.caption.text)
  ELSE IF post.caption.kind = "str" THEN post.caption.text
  ELSE IF post.caption.kind = "null" THEN PyStr(NoneVal)
  ELSE IF post.text # Absent THEN post.text
  ELSE <<>>

\* extract_image_url on an item without a carousel
ExtractImageFlat(m) ==
  IF ~m.isdict THEN NoneVal
  ELSE IF m.image_url # Absent THEN m.image_url
  ELSE IF m.candidates # <<>> THEN DictGet(m.candidates[1])
  ELSE IF m.cover_photo # Absent THEN m.cover_photo
  ELSE IF m.thumbnail_url # Absent THEN m.thumbnail_url
  ELSE IF m.video_versions # <<>> THEN
         PyOr(DictGet(m.video_versions[1].cover_image_url),
              DictGet(m.video_versions[1].thumbnail_url))
  ELSE NoneVal

HasFlatImageKey(m) ==
  \/ m.image_url # Absent
  \/ m.candidates # <<>>
  \/ m.cover_photo # Absent
  \/ m.thumbnail_url # Absent
  \/ m.video_versions # <<>>

RECURSIVE extract_image_url(_)
extract_image_url(m) ==
  IF ~m.isdict THEN NoneVal
  ELSE IF HasFlatImageKey(m) THEN ExtractImageFlat(m)
  ELSE IF m.carousel_media # <<>> THEN extract_image_url(m.carousel_media[1])
  ELSE NoneVal

\* post.get("id") or post.get("pk") or post.get("media_id") or post.get("code")
PostId(post) ==
  IF ~post.isdict THEN NoneVal
  ELSE PyOr(DictGet(post.id),
            PyOr(DictGet(post.pk), PyOr(DictGet(post.media_id), DictGet(post.code))))

TextKey(post) == Prefix(Strip(PostText(post)), TextKeyLen)
IdKey(post) == <<"i", "d", "_">> \o PostId(post)

\* ------------------------------------------------------------ responses
\* The JSON value a page fetch returns.  kind is "list" (a bare array),
\* "dict" or "other" (string, number, null).  A field that holds a list has
\* kind "list"; a missing field has kind "absent".
NoList == [kind |-> "absent", list |-> <<>>]
ListOf(l) == [kind |-> "list", list |-> l]

NoPaging == [kind |-> "absent", max_id |-> Absent, next_max_id |-> Absent]
NoPagination ==
  [kind |-> "absent", next_max_id |-> Absent, next_cursor |-> Absent,
   max_id |-> Absent]

NoData ==
  [kind |-> "absent", list |-> <<>>, items |-> NoList, paging_info |-> NoPaging,
   next_max_id |-> Absent, max_id |-> Absent]

BlankResp ==
  [kind |-> "dict", list |-> <<>>, data |-> NoData, items |-> NoList,
   posts |-> NoList, feed |-> NoList, videos |-> NoList, reels |-> NoList,
   edges |-> NoList,
   next_max_id |-> Absent, pagination |-> NoPagination]

\* for item in items: if isinstance(item, dict): item["media"] if "media" in
\* item else item
RECURSIVE UnwrapMedia(_)
UnwrapMedia(items) ==
  IF items = <<>> THEN <<>>
  ELSE LET item == Head(items)
           rest == UnwrapMedia(Tail(items))
       IN IF ~item.isdict THEN rest
          ELSE IF item.media # <<>> THEN <<item.media[1]>> \o rest
          ELSE <<item>> \o rest

\* a field read without a type test: a list is taken as it is, a missing or
\* null field yields nothing (a number yields no items either: ForRaises)
FieldList(f) == IF f.kind = "list" THEN f.list ELSE <<>>

\* the "Extract posts from feed" block of get_user_feed
ExtractPostsUserFeed(r) ==
  IF r.kind = "list" THEN r.list
  ELSE IF r.kind # "dict" THEN <<>>
  ELSE IF r.data.kind = "dict" THEN
         (IF r.data.items.kind = "list" THEN UnwrapMedia(r.data.items.list)
          ELSE <<>>)
  ELSE IF r.data.kind = "list" THEN r.data.list
  ELSE IF r.items.kind # "absent" THEN
         (IF r.items.kind = "list" THEN UnwrapMedia(r.items.list) ELSE <<>>)
  ELSE IF r.posts.kind # "absent" THEN FieldList(r.posts)
  ELSE IF r.feed.kind # "absent" THEN FieldList(r.feed)
  ELSE IF r.edges.kind # "absent" THEN FieldList(r.edges)
  ELSE <<>>

\* the "Extract list from response" block of get_video_feed
ExtractPostsVideoFeed(r) ==
  IF r.kind = "list" THEN r.list
  ELSE IF r.kind # "dict" THEN <<>>
  ELSE IF r.data.kind = "dict" THEN
         (IF r.data.items.kind = "list" THEN UnwrapMedia(r.data.items.list)
          ELSE <<>>)
  ELSE IF r.data.kind = "list" THEN r.data.list
  ELSE IF r.videos.kind # "absent" THEN FieldList(r.videos)
  ELSE IF r.items.kind # "absent" THEN
         (IF r.items.kind = "list" THEN UnwrapMedia(r.items.list) ELSE <<>>)
  ELSE IF r.posts.kind # "absent" THEN FieldList(r.posts)
  ELSE <<>>

ExtractPosts(f, r) ==
  IF f = "get_user_feed" THEN ExtractPostsUserFeed(r) ELSE ExtractPostsVideoFeed(r)

\* [item for item in l if isinstance(item, dict)]
DictsOnly(l) == SelectSeq(l, LAMBDA item : item.isdict)

\* a field of get_user_reels: taken if it is a list, its dicts only
DictsOfField(f) == IF f.kind = "list" THEN DictsOnly(f.list) ELSE <<>>

\* the "Extract list from response" block of get_user_reels
ExtractReels(r) ==
  IF r.kind = "list" THEN DictsOnly(r.list)
  ELSE IF r.kind # "dict" THEN <<>>
  ELSE IF r.data.kind = "dict" THEN
         (IF r.data.items.kind = "list" THEN UnwrapMedia(r.data.items.list)
          ELSE <<>>)
  ELSE IF r.data.kind = "list" THEN DictsOnly(r.data.list)
  ELSE IF r.reels.kind # "absent" THEN DictsOfField(r.reels)
  ELSE IF r.items.kind # "absent" THEN DictsOfField(r.items)
  ELSE IF r.videos.kind # "absent" THEN DictsOfField(r.videos)
  ELSE <<>>

\* the named field whose value get_user_feed / get_video_feed take with no
\* type test ("posts = feed_data["posts"]"), NoList when the branch taken
\* tests the type or nothing matches
UncheckedField(f, r) ==
  IF r.kind # "dict" \/ r.data.kind \in {"dict", "list"} THEN NoList
  ELSE IF f = "get_user_feed" THEN
         (IF r.items.kind # "absent" THEN NoList
          ELSE IF r.posts.kind # "absent" THEN r.posts
          ELSE r.feed)
  ELSE IF r.videos.kind # "absent" THEN r.videos
  ELSE IF r.items.kind # "absent" THEN NoList
  ELSE r.posts

\* a field holding a non-zero number: truthy, so "if posts:" is entered
NumberField == [kind |-> "number", list |-> <<>>]
NullField == [kind |-> "null", list |-> <<>>]

\* "for post in posts" over a number: TypeError, 'int' object is not iterable
ForRaises(f, r) == UncheckedField(f, r).kind = "number"
NotIterableError ==
  [type |-> "TypeError", msg |-> "'int' object is not iterable", status_code |-> <<>>]

\* the normalizer of the function f
Normalizer(f, r) ==
  IF f = "get_user_reels" THEN ExtractReels(r) ELSE ExtractPosts(f, r)

\* the "Extract next_max_id from response" block (the same in both feeds)
CursorInData(d) ==
  LET p == IF d.paging_info.kind = "dict"
           THEN PyOr(DictGet(d.paging_info.max_id), DictGet(d.paging_info.next_max_id))
           ELSE NoneVal
  IN IF Truthy(p) THEN p ELSE PyOr(DictGet(d.next_max_id), DictGet(d.max_id))

CursorInPagination(r) ==
  IF r.pagination.kind = "absent" \/ r.pagination.kind = "dict"
  THEN PyOr(DictGet(r.pagination.next_max_id),
            PyOr(DictGet(r.pagination.next_cursor), DictGet(r.pagination.max_id)))
  ELSE NoneVal

\* the top-level cursor alone
MutExtractTopLevelOnly(r) == DictGet(r.next_max_id)
\* the cursor of the response r, None when there is none
ExtractNextMaxId(r) ==
  IF r.kind # "dict" THEN NoneVal
  ELSE LET top == DictGet(r.next_max_id)
           inData == IF ~Truthy(top) /\ r.data.kind = "dict"
                     THEN CursorInData(r.data) ELSE top
       IN IF Truthy(inData) THEN inData ELSE CursorInPagination(r)

\* ------------------------------------------------------------ dedupe
\* The three key checks of the "for post in posts" loop body against
\* seen_ids, which holds text keys, image URLs and id keys alike.  Each
\* yields is_duplicate and the seen_ids it leaves.
Verdict(dup, seen) == [is_duplicate |-> dup, seen |-> seen]

\* "Also check by post ID as fallback"
CheckId(post, seen) ==
  IF ~Truthy(PostId(post)) THEN Verdict(FALSE, seen)
  ELSE IF IdKey(post) \in seen THEN Verdict(TRUE, seen)
  ELSE Verdict(FALSE, seen \cup {IdKey(post)})

\* CheckImage without lines 169-174: the image URL is never looked up
MutCheckImageSkipped(post, seen) == CheckId(post, seen)
\* "if not is_duplicate and post_image_url"
CheckImage(post, seen) ==
  IF ~Truthy(extract_image_url(post)) THEN CheckId(post, seen)
  ELSE IF extract_image_url(post) \in seen THEN Verdict(TRUE, seen)
  ELSE CheckId(post, seen \cup {extract_image_url(post)})

\* "if post_text", and the checks after it
CheckPost(post, seen) ==
  IF ~Truthy(PostText(post)) THEN CheckImage(post, seen)
  ELSE IF TextKey(post) \in seen THEN Verdict(TRUE, seen)
  ELSE CheckImage(post, seen \cup {TextKey(post)})

\* new_posts, duplicate_found and seen_ids before the first post
NoPosts(seen) == [new_posts |-> <<>>, duplicate_found |-> FALSE, seen |-> seen]

\* the end of the loop body: "if not is_duplicate: new_posts.append(post)"
Collect(acc, post, c) ==
  [new_posts |-> IF c.is_duplicate THEN acc.new_posts ELSE Append(acc.new_posts, post),
   duplicate_found |-> acc.duplicate_found \/ c.is_duplicate,
   seen |-> c.seen]

\* the whole "for post in posts" loop
RECURSIVE DedupePass(_, _)
DedupePass(posts, acc) ==
  IF posts = <<>> THEN acc
  ELSE DedupePass(Tail(posts),
                  Collect(acc, Head(posts), CheckPost(Head(posts), acc.seen)))

\* the loop without the break of lines 193-196
MutDuplicateStopIgnored(d) == FALSE
\* if duplicate_found and not new_posts: break
DuplicateStop(d) == d.duplicate_found /\ d.new_posts = <<>>

\* Optional[int]: <<>> is None, <<k>> is the integer k
NoLimit == <<>>

\* "len(all_posts) > max_items" for ">="
MutEnoughItemsStrict(max_items, posts) ==
  max_items # NoLimit /\ max_items[1] # 0 /\ Len(posts) > max_items[1]
\* if max_items and len(all_posts) >= max_items
EnoughItems(max_items, posts) ==
  max_items # NoLimit /\ max_items[1] # 0 /\ Len(posts) >= max_items[1]

\* the slice all_posts[:max_items] left out
MutTruncateKeepsAll(max_items, posts) == posts
\* all_posts[:max_items]
Truncate(max_items, posts) == Prefix(posts, max_items[1])

\* ------------------------------------------------------------ aggregation
\* "range(max_pages + 1)" for "range(max_pages)"
MutLoopEndsLate(page) == page >= MaxPages
\* "while True" in the place of the bounded loop
MutLoopNeverEnds(page) == FALSE
\* "for page in range(max_pages)": the iteration with index page is the last
LoopEnds(page) == page + 1 >= MaxPages

\* break (or the end of the loop), then "return all_posts, current_max_id"
Return(st, posts, seen, cursor) ==
  [st EXCEPT !.pc = "returned", !.all_posts = posts, !.seen_ids = seen,
             !.current_max_id = cursor, !.result = <<posts, cursor>>]

\* "if not next_max_id: break", else "current_max_id = next_max_id" and the
\* next iteration
AfterCursor(st, posts, seen, next_max_id) ==
  IF ~Truthy(next_max_id) THEN Return(st, posts, seen, st.current_max_id)
  ELSE IF LoopEnds(st.page) THEN Return(st, posts, seen, next_max_id)
  ELSE [st EXCEPT !.all_posts = posts, !.seen_ids = seen,
                  !.current_max_id = next_max_id, !.page = st.page + 1]

\* "Check if we have enough items", then the cursor of the response r
AfterMerge(st, r, posts, seen) ==
  IF EnoughItems(st.max_items, posts)
  THEN Return(st, Truncate(st.max_items, posts), seen, st.current_max_id)
  ELSE AfterCursor(st, posts, seen, ExtractNextMaxId(r))

\* the new items put in front of the accumulator
MutAfterDedupePrepends(st, r, d) ==
  IF DuplicateStop(d) THEN Return(st, st.all_posts, d.seen, st.current_max_id)
  ELSE AfterMerge(st, r, d.new_posts \o st.all_posts, d.seen)
\* the end of the "if posts:" block, d being what the dedupe loop left
AfterDedupe(st, r, d) ==
  IF DuplicateStop(d) THEN Return(st, st.all_posts, d.seen, st.current_max_id)
  ELSE AfterMerge(st, r, st.all_posts \o d.new_posts, d.seen)

\* a page without items taken for a page of duplicates
MutAfterExtractEmptyStops(st, r, posts) ==
  IF posts # <<>> THEN AfterDedupe(st, r, DedupePass(posts, NoPosts(st.seen_ids)))
  ELSE Return(st, st.all_posts, st.seen_ids, st.current_max_id)
\* "if posts:"
AfterExtract(st, r, posts) ==
  IF posts # <<>> THEN AfterDedupe(st, r, DedupePass(posts, NoPosts(st.seen_ids)))
  ELSE AfterMerge(st, r, st.all_posts, st.seen_ids)

\* One iteration of "for page in range(max_pages)" after the fetch returned
\* feed_data r, on the locals st of the running call.  pc is "loop" when the
\* next iteration follows, "returned" after a break or the last page and
\* "raised" when the dedupe loop cannot iterate what was extracted.
IterationBody(st, r) ==
  IF ForRaises(st.fn, r) THEN [st EXCEPT !.pc = "raised", !.error = <<NotIterableError>>]
  ELSE AfterExtract(st, r, ExtractPosts(st.fn, r))

\* the fetch wrapped in a try/except that returns what was accumulated
MutFetchRaisedReturnsPartial(st, e) ==
  [st EXCEPT !.pc = "returned", !.result = <<st.all_posts, st.current_max_id>>]
\* an exception of the fetch leaves the call: nothing catches it
FetchRaised(st, e) == [st EXCEPT !.pc = "raised", !.error = <<e>>]

\* the locals at the start of a call
StartCall(f, cursor, limit) ==
  [fn |-> f, max_items |-> limit, all_posts |-> <<>>, seen_ids |-> {},
   current_max_id |-> cursor, page |-> 0, pc |-> "loop", result |-> <<>>,
   error |-> <<>>]

\* ------------------------------------------------------------ fetcher
\* What one session.get(...) of RapidAPIClient.get does: ev is "response"
\* (an HTTP response with a status; json tells whether its body parses),
\* "timeout", "connection" or "exception" (another RequestException).
HttpResponse(code, parses, b) ==
  [ev |-> "response", status |-> code, json |-> parses, body |-> b]
HttpFailure(kind) == [ev |-> kind, status |-> 0, json |-> FALSE, body |-> BlankResp]

\* Response.raise_for_status(): HTTPError for a 4xx/5xx status
RaisesForStatus(h) == h.status >= 400 /\ h.status < 600

\* bool(response) is Response.ok: False for a 4xx/5xx status
ResponseTruthy(h) == ~RaisesForStatus(h)

\* status_code = e.response.status_code if e.response else None
\* (<<>> is None)
StatusCodeOf(h) == IF ResponseTruthy(h) THEN <<h.status>> ELSE <<>>

\* the exceptions RapidAPIClient.get raises
RateLimitError ==
  [type |-> "RequestException", msg |-> "Rate limit exceeded", status_code |-> <<>>]
NotFoundError == [type |-> "ValueError", msg |-> "Resource not found", status_code |-> <<>>]
AuthError == [type |-> "ValueError", msg |-> "Authentication failed", status_code |-> <<>>]
BadRequestError == [type |-> "ValueError", msg |-> "Bad request", status_code |-> <<>>]
InvalidJsonError ==
  [type |-> "ValueError", msg |-> "Invalid JSON response", status_code |-> <<>>]
\* f"HTTP {status_code} error: {str(e)}"
HttpStatusError(status_code) ==
  [type |-> "RequestException", msg |-> "HTTP error", status_code |-> status_code]
TimeoutError == [type |-> "RequestException", msg |-> "Request timeout", status_code |-> <<>>]
ConnectError ==
  [type |-> "RequestException", msg |-> "Connection error", status_code |-> <<>>]
\* the bare "raise" of the last except clause: the exception as it came
OriginalError == [type |-> "RequestException", msg |-> "original", status_code |-> <<>>]
ExhaustedError ==
  [type |-> "RequestException", msg |-> "Failed to fetch", status_code |-> <<>>]

RECURSIVE Pow2(_)
Pow2(n) == IF n <= 0 THEN 1 ELSE 2 * Pow2(n - 1)

\* the parsed body kept but not returned: the loop goes on
MutGetReturnGoesOn(c, h, v) ==
  [c EXCEPT !.attempt = c.attempt + 1, !.sent = c.sent + 1, !.http = <<h>>,
            !.value = <<v>>, !.all429 = FALSE,
            !.pc = IF c.attempt + 1 < c.retries THEN "running" ELSE "raised"]
\* the locals of one call get(endpoint, params, retries): attempt is the loop
\* index, sent counts the HTTP requests made, sleeps lists the time.sleep
\* calls, http is the outcome of the last request, all429 tells whether every
\* request so far was answered 429
GetReturn(c, h, v) ==
  [c EXCEPT !.pc = "returned", !.value = <<v>>, !.sent = c.sent + 1, !.http = <<h>>,
            !.all429 = FALSE]
GetRaise(c, h, e) ==
  [c EXCEPT !.pc = "raised", !.error = <<e>>, !.sent = c.sent + 1, !.http = <<h>>,
            !.all429 = c.all429 /\ h.ev = "response" /\ h.status = 429]
\* the retry without its time.sleep
MutGetRetryNoSleep(c, h, secs) ==
  [c EXCEPT !.attempt = c.attempt + 1, !.sent = c.sent + 1, !.http = <<h>>,
            !.all429 = c.all429 /\ h.ev = "response" /\ h.status = 429]
\* time.sleep(secs), then the next iteration; after the last one the loop
\* ends and line 169 raises
GetRetry(c, h, secs) ==
  LET d == [c EXCEPT !.attempt = c.attempt + 1, !.sent = c.sent + 1,
                     !.http = <<h>>, !.sleeps = Append(c.sleeps, secs),
                     !.all429 = c.all429 /\ h.ev = "response" /\ h.status = 429]
  IN IF c.attempt + 1 < c.retries THEN d
     ELSE [d EXCEPT !.pc = "raised", !.error = <<ExhaustedError>>]

\* except requests.exceptions.HTTPError as e
OnHttpError(c, h) ==
  LET status_code == StatusCodeOf(h)
      last == c.attempt = c.retries - 1
  IN IF status_code = <<429>> THEN
       (IF c.attempt < c.retries - 1 THEN GetRetry(c, h, Pow2(c.attempt))
        ELSE GetRaise(c, h, RateLimitError))
     ELSE IF status_code = <<404>> THEN GetRaise(c, h, NotFoundError)
     ELSE IF status_code = <<401>> \/ status_code = <<403>>
          THEN GetRaise(c, h, AuthError)
     ELSE IF status_code = <<400>> THEN GetRaise(c, h, BadRequestError)
     ELSE IF last THEN GetRaise(c, h, HttpStatusError(status_code))
     ELSE GetRetry(c, h, 1)

\* the ValueError raised as a RequestException: the last except clause
\* catches it and the attempt is retried
MutOnInvalidJsonRetried(c, h) ==
  IF c.attempt = c.retries - 1 THEN GetRaise(c, h, OriginalError)
  ELSE GetRetry(c, h, 1)
\* except ValueError as json_error: raise ValueError(...), which no except
\* clause of the outer try catches
OnInvalidJson(c, h) == GetRaise(c, h, InvalidJsonError)

\* one iteration of "for attempt in range(retries)" with the request's outcome h
AttemptStep(c, h) ==
  LET last == c.attempt = c.retries - 1
  IN IF h.ev = "response" THEN
       (IF RaisesForStatus(h) THEN OnHttpError(c, h)
        ELSE IF h.json THEN GetReturn(c, h, h.body)
        ELSE OnInvalidJson(c, h))
     ELSE IF h.ev = "timeout" THEN
       (IF last THEN GetRaise(c, h, TimeoutError) ELSE GetRetry(c, h, 1))
     ELSE IF h.ev = "connection" THEN
       (IF last THEN GetRaise(c, h, ConnectError) ELSE GetRetry(c, h, 1))
     ELSE (IF last THEN GetRaise(c, h, OriginalError) ELSE GetRetry(c, h, 1))

\* get(..., retries = n) before its first request
StartGet(n) ==
  LET c == [retries |-> n, attempt |-> 0, sent |-> 0, sleeps |-> <<>>,
            pc |-> "running", value |-> <<>>, error |-> <<>>, http |-> <<>>,
            all429 |-> TRUE]
  IN IF n > 0 THEN c ELSE [c EXCEPT !.pc = "raised", !.error = <<ExhaustedError>>]

NoCall == [StartGet(1) EXCEPT !.pc = "idle"]

\* a whole call on the outcomes t of its successive requests
RECURSIVE GetOnTrace(_, _)
GetOnTrace(c, t) ==
  IF c.pc # "running" \/ t = <<>> THEN c
  ELSE GetOnTrace(AttemptStep(c, Head(t)), Tail(t))

\* ------------------------------------------------------------ inputs
\* a caption of TextKeyLen characters, to be followed by a differing tail
LongText == [i \in 1..TextKeyLen |-> "x"]

Url1 == <<"u", "1">>

\* text of more than TextKeyLen characters, id "1"
ItA == [BlankItem EXCEPT !.text = LongText \o <<"y">>, !.id = <<"1">>]
\* caption {"text": ...}: differs from the text of ItA by the blanks around
\* it and after the first TextKeyLen characters; image_url u1
ItB == [BlankItem EXCEPT
          !.caption = [kind |-> "dict", text |-> <<" ">> \o LongText \o <<"z", " ">>],
          !.image_url = Url1, !.id = <<"2">>]
\* no text; image_versions2 candidate u1: the image of ItB; pk "1": the
\* identifier of ItA
ItC == [BlankItem EXCEPT !.candidates = <<Url1>>, !.pk = <<"1">>]
\* an object with no text, no image and no identifier
ItK == BlankItem

ItemPool == {ItA, ItB, ItC, ItK}

\* the item lists of a page
PageLists == UNION {[1..n -> ItemPool] : n \in 0..MaxPageLen}

\* {"media": item}
Wrapped(item) == [BlankItem EXCEPT !.media = <<item>>]
WrapAll(l) == [i \in 1..Len(l) |-> Wrapped(l[i])]

Cursor1 == <<"c", "1">>
CursorD == <<"c", "d">>
CursorR == <<"c", "r">>

\* {"data": {"items": [{"media": ...}, ...], "paging_info": {"max_id": c}}}
DataItemsResp(l, c) ==
  [BlankResp EXCEPT !.data = [NoData EXCEPT !.kind = "dict",
                                            !.items = ListOf(WrapAll(l)),
                                            !.paging_info = [NoPaging EXCEPT !.kind = "dict",
                                                                             !.max_id = c]]]
\* {"items": [...], "next_max_id": c}
ItemsResp(l, c) == [BlankResp EXCEPT !.items = ListOf(l), !.next_max_id = c]
\* a bare array
ListResp(l) == [BlankResp EXCEPT !.kind = "list", !.list = l]

\* Upstream answers by the cursor it is asked with.  Asked with CursorD it
\* serves a feed that need not end: every page is empty or holds one new
\* item, and carries CursorD again (or no cursor).  Asked with CursorR it
\* serves a feed that repeats itself: every page holds ItA, alone or with a
\* new item, and carries CursorR again (or no cursor).  Asked with anything
\* else it serves a feed of item pages, MaxContentPages pages at most.
EndlessBodies ==
  {ItemsResp(l, c) : l \in {<<>>, <<ItK>>}, c \in {CursorD, Absent}}
RepeatBodies ==
  {ItemsResp(l, c) : l \in {<<ItA>>, <<ItA, ItK>>}, c \in {CursorR, Absent}}
LastBodies == {DataItemsResp(l, Absent) : l \in PageLists} \cup {ListResp(l) : l \in PageLists}
InnerBodies == {DataItemsResp(l, Cursor1) : l \in PageLists}

\* the bodies the request number p + 1 of a run, made with cursor c, can be
\* answered with
BodiesFor(c, p) ==
  IF c = CursorD THEN EndlessBodies
  ELSE IF c = CursorR THEN RepeatBodies
  ELSE IF p + 1 < MaxContentPages THEN InnerBodies \cup LastBodies
  ELSE LastBodies

\* what one HTTP request can come to, bodies aside
HttpFailures ==
  {HttpResponse(code, FALSE, BlankResp) : code \in {200, 400, 401, 403, 404, 429, 500}}
  \cup {HttpFailure(k) : k \in {"timeout", "connection", "exception"}}

\* the exceptions a call get(..., retries = n) can end with, over every
\* sequence of outcomes of its requests
GetErrors(n) ==
  LET traces == UNION {[1..k -> HttpFailures] : k \in 0..n}
      ends == {GetOnTrace(StartGet(n), t) : t \in traces}
  IN {c.error[1] : c \in {e \in ends : e.pc = "raised"}}

\* get_feed and get_all_video call get with the default budget
FeedFetchErrors == GetErrors(DefaultRetries)

\* the get call of a page fetch, after it raised e
FailedCall(e) == [NoCall EXCEPT !.pc = "raised", !.error = <<e>>]

\* ------------------------------------------------------------ state
VARIABLES
  run,        \* the locals of the running get_user_feed / get_video_feed call
  feed_data,  \* <<r>>: the value the last page fetch returned
  fetches,    \* the number of get_feed / get_all_video calls made
  slept,      \* the seconds of time.sleep between pages
  unb,        \* the same call on the same responses with max_items = None
  call        \* the locals of the RapidAPIClient.get call under way, or of the
              \* one that raised out of a page fetch

vars == <<run, feed_data, fetches, slept, unb, call>>

Idle == [StartCall("get_user_feed", NoneVal, NoLimit) EXCEPT !.pc = "idle"]

Functions == {"get_user_feed", "get_video_feed"}
Limits == {NoLimit, <<0>>, <<1>>, <<2>>}
StartCursors == {NoneVal, CursorD, CursorR}

\* a call of get_user_feed or get_video_feed begins
Init ==
  /\ \E f \in Functions, c \in StartCursors, k \in Limits : run = StartCall(f, c, k)
  /\ feed_data = <<>>
  /\ fetches = 0
  /\ slept = 0
  /\ unb = Idle
  /\ call = NoCall

\* the delay without its "if page > 0"
MutDelayBeforeEvery(p) == PageDelay
\* time.sleep(delay) "if page > 0"
DelayBefore(p) == IF p > 0 THEN PageDelay ELSE 0

\* one loop iteration whose fetch returns (the count of fetches is capped
\* one past the page bound, which the loop does not reach)
PageFetched ==
  /\ run.pc = "loop"
  /\ fetches <= MaxPages
  /\ \E r \in BodiesFor(run.current_max_id, run.page) :
       /\ run' = IterationBody(run, r)
       /\ feed_data' = <<r>>
  /\ fetches' = fetches + 1
  /\ slept' = slept + DelayBefore(run.page)
  /\ UNCHANGED <<unb, call>>

\* one loop iteration whose fetch raises
PageFetchRaises ==
  /\ run.pc = "loop"
  /\ fetches <= MaxPages
  /\ \E e \in FeedFetchErrors :
       /\ call' = FailedCall(e)
       /\ run' = FetchRaised(run, e)
  /\ fetches' = fetches + 1
  /\ slept' = slept + DelayBefore(run.page)
  /\ UNCHANGED <<feed_data, unb>>

Next == PageFetched \/ PageFetchRaises

Spec == Init /\ [][Next]_vars

\* ------------------------------------------------------------ one get call
\* the successful bodies of a direct call
GetBodies == LastBodies \cup EndlessBodies

HttpOutcomes == HttpFailures \cup {HttpResponse(200, TRUE, b) : b \in GetBodies}

\* a call get(endpoint, params, retries = n) begins
InitGet ==
  /\ \E n \in 0..MaxRetries : call = StartGet(n)
  /\ run = Idle
  /\ unb = Idle
  /\ feed_data = <<>>
  /\ fetches = 0
  /\ slept = 0

\* one iteration of the retry loop: a request and what follows from its outcome
HttpAttempt ==
  /\ call.pc = "running"
  /\ \E h \in HttpOutcomes : call' = AttemptStep(call, h)
  /\ UNCHANGED <<run, feed_data, fetches, slept, unb>>

NextGet == HttpAttempt

SpecGet == InitGet /\ [][NextGet]_vars

\* ------------------------------------------------------------ fairness
\* A run of get_user_feed / get_video_feed against an upstream that serves a
\* cursor on every page (CursorD, CursorR), or one call of get, in which
\* every HTTP request is answered or fails in the end: a page fetch that can
\* be made is made and ends, an attempt under way ends.
InitLive == (Init /\ run.current_max_id \in {CursorD, CursorR}) \/ InitGet

NextLive == Next \/ NextGet

SpecLive == InitLive /\ [][NextLive]_vars /\ WF_vars(Next) /\ WF_vars(NextGet)

\* ------------------------------------------------------------ two calls
\* The same call twice on the same sequence of page fetch outcomes: run with
\* max_items = k, unb with max_items = None.  unb never stops before run.
InitPair ==
  /\ \E f \in Functions, c \in StartCursors, k \in Limits \ {NoLimit} :
       /\ run = StartCall(f, c, k)
       /\ unb = StartCall(f, c, NoLimit)
  /\ feed_data = <<>>
  /\ fetches = 0
  /\ slept = 0
  /\ call = NoCall

Advance(st, r) == IF st.pc = "loop" THEN IterationBody(st, r) ELSE st
AdvanceRaised(st, e) == IF st.pc = "loop" THEN FetchRaised(st, e) ELSE st
Count(st) == IF st.pc = "loop" THEN 1 ELSE 0

\* the next page fetch of the sequence returns
PairFetched ==
  /\ unb.pc = "loop"
  /\ unb.page < MaxPairPages
  /\ \E r \in BodiesFor(unb.current_max_id, unb.page) :
       /\ unb' = IterationBody(unb, r)
       /\ run' = Advance(run, r)
       /\ feed_data' = IF run.pc = "loop" THEN <<r>> ELSE feed_data
  /\ fetches' = fetches + Count(run)
  /\ slept' = slept + Count(run) * DelayBefore(run.page)
  /\ UNCHANGED call

\* the next page fetch of the sequence raises
PairFetchRaises ==
  /\ unb.pc = "loop"
  /\ unb.page < MaxPairPages
  /\ \E e \in FeedFetchErrors :
       /\ unb' = FetchRaised(unb, e)
       /\ run' = AdvanceRaised(run, e)
       /\ call' = IF run.pc = "loop" THEN FailedCall(e) ELSE call
  /\ fetches' = fetches + Count(run)
  /\ slept' = slept + Count(run) * DelayBefore(run.page)
  /\ UNCHANGED feed_data

NextPair == PairFetched \/ PairFetchRaises

SpecPair == InitPair /\ [][NextPair]_vars

\* ------------------------------------------------------------ interleaved
\* Two calls under way at once, run and unb, each with its own upstream
\* feed; a step is one loop iteration of one of them.
\* seen_ids = set(), all_posts = [] and current_max_id are locals of the
\* call: an iteration of one call reads and writes its own only
MutLocalsShareSeen(own, other) ==
  [own EXCEPT !.seen_ids = own.seen_ids \cup other.seen_ids]
LocalsOf(own, other) == own

TwoCursors == {CursorR, CursorD}

InitTwo ==
  /\ \E f, g \in Functions, c, d \in TwoCursors, k \in {NoLimit, <<2>>} :
       /\ run = StartCall(f, c, k)
       /\ unb = StartCall(g, d, NoLimit)
  /\ feed_data = <<>>
  /\ fetches = 0
  /\ slept = 0
  /\ call = NoCall

\* an iteration of the first call whose fetch returns
FirstFetched ==
  /\ run.pc = "loop"
  /\ run.page < MaxTwoPages
  /\ \E r \in BodiesFor(run.current_max_id, run.page) :
       /\ run' = IterationBody(LocalsOf(run, unb), r)
       /\ feed_data' = <<r>>
  /\ fetches' = fetches + 1
  /\ slept' = slept + DelayBefore(run.page)
  /\ UNCHANGED <<unb, call>>

\* an iteration of the second call whose fetch returns
SecondFetched ==
  /\ unb.pc = "loop"
  /\ unb.page < MaxTwoPages
  /\ \E r \in BodiesFor(unb.current_max_id, unb.page) :
       /\ unb' = IterationBody(LocalsOf(unb, run), r)
       /\ feed_data' = <<r>>
  /\ fetches' = fetches + 1
  /\ slept' = slept + DelayBefore(unb.page)
  /\ UNCHANGED <<run, call>>

\* an iteration of the first call whose fetch raises
FirstRaises ==
  /\ run.pc = "loop"
  /\ run.page < MaxTwoPages
  /\ \E e \in FeedFetchErrors :
       /\ run' = FetchRaised(LocalsOf(run, unb), e)
       /\ call' = FailedCall(e)
  /\ fetches' = fetches + 1
  /\ slept' = slept + DelayBefore(run.page)
  /\ UNCHANGED <<unb, feed_data>>

\* an iteration of the second call whose fetch raises
SecondRaises ==
  /\ unb.pc = "loop"
  /\ unb.page < MaxTwoPages
  /\ \E e \in FeedFetchErrors :
       /\ unb' = FetchRaised(LocalsOf(unb, run), e)
       /\ call' = FailedCall(e)
  /\ fetches' = fetches + 1
  /\ slept' = slept + DelayBefore(unb.page)
  /\ UNCHANGED <<run, feed_data>>

NextTwo == FirstFetched \/ SecondFetched \/ FirstRaises \/ SecondRaises

SpecTwo == InitTwo /\ [][NextTwo]_vars

\* ------------------------------------------------------------ the dedupe loop
\* The "for post in posts" loop of one call, an iteration a step, over the
\* pages the call has normalized so far in one list.
Url2 == <<"u", "2">>
\* the text is the URL of the item's own image
ItS == [BlankItem EXCEPT !.text = Url2, !.image_url = Url2]

\* an item whose "caption" is null and that carries nothing else
ItN == [BlankItem EXCEPT !.caption = [kind |-> "null", text |-> Absent]]

DedupeItems == {ItA, ItB, ItC, ItK, ItS, ItN, NonDictItem}
DedupeLists == UNION {[1..n -> DedupeItems] : n \in 0..MaxDedupeLen}

\* the locals of the loop: posts is what is left to iterate, acc holds
\* new_posts, duplicate_found and seen_ids, post and is_duplicate are those
\* of the iteration that ended last, seen_was the seen_ids it began with
ForLoop(l) ==
  [pc |-> "for", posts |-> l, acc |-> NoPosts({}), post |-> <<>>,
   is_duplicate |-> FALSE, seen_was |-> {}]

\* one iteration of the loop
LoopBody(st) ==
  [pc |-> "for", posts |-> Tail(st.posts),
   acc |-> Collect(st.acc, Head(st.posts), CheckPost(Head(st.posts), st.acc.seen)),
   post |-> <<Head(st.posts)>>,
   is_duplicate |-> CheckPost(Head(st.posts), st.acc.seen).is_duplicate,
   seen_was |-> st.acc.seen]

\* a call is about to dedupe the items l of its first page, seen_ids = set()
InitDedupe ==
  /\ \E l \in DedupeLists :
       /\ run = ForLoop(l)
       /\ feed_data = <<ListResp(l)>>
  /\ unb = Idle
  /\ call = NoCall
  /\ fetches = 0
  /\ slept = 0

DedupeStep ==
  /\ run.pc = "for"
  /\ run.posts # <<>>
  /\ run' = LoopBody(run)
  /\ UNCHANGED <<feed_data, fetches, slept, unb, call>>

NextDedupe == DedupeStep

SpecDedupe == InitDedupe /\ [][NextDedupe]_vars

\* ------------------------------------------------------------ the normalizer
\* the items of a response: a keyed object, the same under "media", a value
\* that is no object
NormLists == UNION {[1..n -> {ItA, Wrapped(ItA), NonDictItem}] : n \in 0..MaxPageLen}

\* the response shapes the normalizers read, each holding the list l
ShapedResp(shape, l) ==
  IF shape = "array" THEN ListResp(l)
  ELSE IF shape = "data" THEN [BlankResp EXCEPT !.data = [NoData EXCEPT !.kind = "list", !.list = l]]
  ELSE IF shape = "data.items" THEN
    [BlankResp EXCEPT !.data = [NoData EXCEPT !.kind = "dict", !.items = ListOf(l)]]
  ELSE IF shape = "items" THEN [BlankResp EXCEPT !.items = ListOf(l)]
  ELSE IF shape = "posts" THEN [BlankResp EXCEPT !.posts = ListOf(l)]
  ELSE IF shape = "feed" THEN [BlankResp EXCEPT !.feed = ListOf(l)]
  ELSE IF shape = "videos" THEN [BlankResp EXCEPT !.videos = ListOf(l)]
  ELSE [BlankResp EXCEPT !.reels = ListOf(l)]

\* the shapes each function reads
ShapesOf(f) ==
  {"array", "data", "data.items", "items"} \cup
  (IF f = "get_user_feed" THEN {"posts", "feed"}
   ELSE IF f = "get_video_feed" THEN {"videos", "posts"}
   ELSE {"reels", "videos"})

Extractors == {"get_user_feed", "get_video_feed", "get_user_reels"}

\* a response carrying a top-level "items" array l1 and the array l2 under
\* one of the named fields
TwoFieldResp(shape, l1, l2) == [ShapedResp(shape, l2) EXCEPT !.items = ListOf(l1)]
NamedFields == {"posts", "feed", "videos", "reels"}

\* JSON values of no recognised shape: a string, a number, null, an object
\* with none of the fields, and objects whose named field is null or a number
FieldOf(shape, v) ==
  IF shape = "posts" THEN [BlankResp EXCEPT !.posts = v]
  ELSE IF shape = "feed" THEN [BlankResp EXCEPT !.feed = v]
  ELSE IF shape = "videos" THEN [BlankResp EXCEPT !.videos = v]
  ELSE [BlankResp EXCEPT !.reels = v]
OddResponses ==
  {[BlankResp EXCEPT !.kind = k] : k \in {"str", "number", "null", "dict"}} \cup
  {FieldOf(shape, v) : shape \in NamedFields, v \in {NullField, NumberField}}

\* the eight places of a cursor, in the order they are read: top-level
\* next_max_id; data.paging_info max_id, next_max_id; data next_max_id,
\* max_id; pagination next_max_id, next_cursor, max_id.  CursorResp(v, l) is
\* a response holding the items l and the value v[i] at place i ("data" and
\* "pagination" being there when one of their places is filled).
CursorPlaces == 1..8
CursorOf(i) == <<"c", ToString(i)>>
CursorResp(v, l) ==
  LET inData == \E i \in 2..5 : v[i] # Absent
      paging == [NoPaging EXCEPT !.kind = IF v[2] # Absent \/ v[3] # Absent
                                          THEN "dict" ELSE "absent",
                                 !.max_id = v[2], !.next_max_id = v[3]]
      data == IF inData
              THEN [NoData EXCEPT !.kind = "dict", !.items = ListOf(l),
                                  !.paging_info = paging,
                                  !.next_max_id = v[4], !.max_id = v[5]]
              ELSE NoData
      pagination == [NoPagination EXCEPT
                       !.kind = IF \E i \in 6..8 : v[i] # Absent THEN "dict" ELSE "absent",
                       !.next_max_id = v[6], !.next_cursor = v[7], !.max_id = v[8]]
  IN [BlankResp EXCEPT !.items = ListOf(l), !.next_max_id = v[1], !.data = data,
                       !.pagination = pagination]
CursorResponses ==
  {CursorResp([i \in CursorPlaces |-> IF i \in S THEN CursorOf(i) ELSE Absent], l) :
     S \in SUBSET CursorPlaces, l \in {<<>>, <<ItA>>}}

NormResponses ==
  CursorResponses \cup
  {ShapedResp(shape, l) : shape \in UNION {ShapesOf(f) : f \in Extractors}, l \in NormLists}
  \cup {TwoFieldResp(shape, l1, l2) : shape \in NamedFields, l1 \in NormLists, l2 \in NormLists}
  \cup OddResponses

\* a response has arrived
InitNorm ==
  /\ \E r \in NormResponses : feed_data = <<r>>
  /\ run = Idle
  /\ unb = Idle
  /\ call = NoCall
  /\ fetches = 0
  /\ slept = 0

\* one of the three functions extracts the items of the response: all_posts
\* holds its local posts / videos / result
Normalize ==
  /\ run.pc = "idle"
  /\ \E f \in Extractors :
       run' = [Idle EXCEPT !.fn = f, !.pc = "extracted",
                           !.all_posts = Normalizer(f, feed_data[1])]
  /\ UNCHANGED <<feed_data, fetches, slept, unb, call>>

\* one iteration of get_user_feed / get_video_feed on the response, the
\* first or the last of the loop, nothing accumulated before it: extraction,
\* dedupe pass, merge and cursor
FirstIteration ==
  /\ run.pc = "idle"
  /\ \E f \in Functions, k \in {NoLimit, <<1>>}, p \in {0, MaxPages - 1} :
       run' = IterationBody([StartCall(f, NoneVal, k) EXCEPT !.page = p], feed_data[1])
  /\ UNCHANGED <<feed_data, fetches, slept, unb, call>>

NextNorm == Normalize \/ FirstIteration

SpecNorm == InitNorm /\ [][NextNorm]_vars

\* ------------------------------------------------------------ get_user_info
\* str.isdigit()
IsDigit(s) ==
  s # <<>> /\ \A i \in 1..Len(s) : s[i] \in {"0", "1", "2", "3", "4", "5", "6", "7", "8", "9"}

\* str.lstrip('@')
RECURSIVE LStripAt(_)
LStripAt(s) == IF s # <<>> /\ Head(s) = "@" THEN LStripAt(Tail(s)) ELSE s

\* What get_user_id_by_username / get_username_by_user_id return on the
\* outcome o of their request.  o.kind is "raise" (the request raised),
\* "dict" or "other"; o.top is the first truthy value under the top-level
\* keys, o.data the value under "data" (kind "absent", "dict" with the first
\* truthy value under its keys, or "str").  A value found under a key is
\* logged before it is returned, and "logger" is a local of these functions
\* (assigned in their except block) not yet bound: the logging raises
\* UnboundLocalError, which the except block catches, and None is returned.
Resolved(o) ==
  IF o.kind # "dict" THEN NoneVal
  ELSE IF Truthy(o.top) THEN NoneVal
  ELSE IF o.data.kind = "str" THEN o.data.value
  ELSE NoneVal

\* the outcomes of a resolution request
ResolutionOutcomes ==
  {[kind |-> k, top |-> t, data |-> [kind |-> dk, value |-> v]] :
     k \in {"raise", "dict", "other"}, t \in {Absent, <<"7">>},
     dk \in {"absent", "dict", "str"}, v \in {<<>>, <<"7">>, <<"b">>, <<"@", "b">>}}

Identifiers == {<<"b">>, <<"@", "b", " ">>, <<"4">>, <<" ", "4">>, <<"@", "4">>}

\* the locals of get_user_info after "is_numeric = identifier_clean.isdigit()";
\* log holds the requests made, the values the resolutions returned and the
\* sleeps, in order (feed_data holds the outcome of the last resolution request)
StartInfo(identifier) ==
  LET identifier_clean == Strip(LStripAt(identifier))
  IN [pc |-> IF IsDigit(identifier_clean) THEN "username_by_id" ELSE "user_id_by_username",
      identifier_clean |-> identifier_clean,
      username |-> IF IsDigit(identifier_clean) THEN NoneVal ELSE identifier_clean,
      user_id |-> NoneVal, log |-> <<>>, error |-> <<>>]

Event(st, ev, endpoint, arg) ==
  [st EXCEPT !.log = Append(@, [ev |-> ev, endpoint |-> endpoint, arg |-> arg, secs |-> 0])]

\* no delay between the requests
MutInfoSleepSkipped(st) == st
\* "delay = 1.5", "time.sleep(delay)"
InfoSleep(st) ==
  [st EXCEPT !.log = Append(@, [ev |-> "sleep", endpoint |-> "", arg |-> <<>>,
                                secs |-> InfoDelay])]

InitInfo ==
  /\ \E identifier \in Identifiers : run = StartInfo(identifier)
  /\ feed_data = <<>>
  /\ unb = Idle
  /\ call = NoCall
  /\ fetches = 0
  /\ slept = 0

\* Step 1 of a numeric identifier: username_by_id, then the delay
UsernameById ==
  /\ run.pc = "username_by_id"
  /\ \E o \in ResolutionOutcomes :
       LET asked == Event(run, "request", "username_by_id", run.identifier_clean)
           back == Event(asked, "returned", "username_by_id", Resolved(o))
       IN /\ feed_data' = <<o>>
          /\ run' = IF ~Truthy(Resolved(o))
                    THEN [back EXCEPT !.pc = "raised", !.error = <<"ValueError">>]
                    ELSE InfoSleep([back EXCEPT !.pc = "user_id_by_username",
                                                !.username = Resolved(o)])
  /\ UNCHANGED <<fetches, slept, unb, call>>

\* user_id_by_username on the username, then the delay before the profile
UserIdByUsername ==
  /\ run.pc = "user_id_by_username"
  /\ \E o \in ResolutionOutcomes :
       LET asked == Event(run, "request", "user_id_by_username", LStripAt(run.username))
           back == Event(asked, "returned", "user_id_by_username", Resolved(o))
       IN /\ feed_data' = <<o>>
          /\ run' = IF ~Truthy(Resolved(o))
                    THEN [back EXCEPT !.pc = "raised", !.error = <<"ValueError">>]
                    ELSE InfoSleep([back EXCEPT !.pc = "profile", !.user_id = Resolved(o)])
  /\ UNCHANGED <<fetches, slept, unb, call>>

\* "return self.client.get_user_info(user_id)": ValueError with no request
\* for a user_id that is not numeric, else the profile request, which
\* returns or raises
Profile ==
  /\ run.pc = "profile"
  /\ \/ /\ ~IsDigit(run.user_id)
        /\ run' = [run EXCEPT !.pc = "raised", !.error = <<"ValueError">>]
     \/ /\ IsDigit(run.user_id)
        /\ \E end \in {"returned", "raised"} :
             run' = [Event(run, "request", "profile", run.user_id) EXCEPT
                       !.pc = end,
                       !.error = IF end = "raised" THEN <<"RequestException">> ELSE <<>>]
  /\ UNCHANGED <<feed_data, fetches, slept, unb, call>>

NextInfo == UsernameById \/ UserIdByUsername \/ Profile

SpecInfo == InitInfo /\ [][NextInfo]_vars

\* ------------------------------------------------------------ get_user_reels
\* a call of get_user_reels begins
InitReels ==
  /\ run = [Idle EXCEPT !.fn = "get_user_reels", !.pc = "try"]
  /\ feed_data = <<>>
  /\ unb = Idle
  /\ call = NoCall
  /\ fetches = 0
  /\ slept = 0

\* the delay, the fetch, which returns r, and the items of r
ReelsFetched ==
  /\ run.pc = "try"
  /\ \E r \in NormResponses :
       /\ feed_data' = <<r>>
       /\ run' = [run EXCEPT !.pc = "returned", !.result = <<ExtractReels(r)>>]
  /\ slept' = slept + ReelsDelay
  /\ fetches' = fetches + 1
  /\ UNCHANGED <<unb, call>>

\* no except block around the fetch
MutReelsFetchRaisesUncaught ==
  /\ run.pc = "try"
  /\ \E e \in FeedFetchErrors :
       /\ call' = FailedCall(e)
       /\ run' = [run EXCEPT !.pc = "raised", !.error = <<e>>]
  /\ slept' = slept + ReelsDelay
  /\ fetches' = fetches + 1
  /\ UNCHANGED <<feed_data, unb>>
\* the delay and the fetch, which raises: "except Exception" logs the error
\* and "return []" follows
ReelsFetchRaises ==
  /\ run.pc = "try"
  /\ \E e \in FeedFetchErrors :
       /\ call' = FailedCall(e)
       /\ run' = [run EXCEPT !.pc = "returned", !.result = << <<>> >>]
  /\ slept' = slept + ReelsDelay
  /\ fetches' = fetches + 1
  /\ UNCHANGED <<feed_data, unb>>

NextReels == ReelsFetched \/ ReelsFetchRaises

SpecReels == InitReels /\ [][NextReels]_vars

\* ------------------------------------------------------------ properties
\* the dedupe keys an item presents: its text key, its image URL, its id key
PresentKeys(post) ==
  (IF Truthy(PostText(post)) THEN {<<"text", TextKey(post)>>} ELSE {})
  \cup (IF Truthy(extract_image_url(post)) THEN {<<"image", extract_image_url(post)>>} ELSE {})
  \cup (IF Truthy(PostId(post)) THEN {<<"id", IdKey(post)>>} ELSE {})

SharesKey(p, q) == PresentKeys(p) \cap PresentKeys(q) # {}

\* the keys as the code stores them in seen_ids
StoredKeys(post) == {k[2] : k \in PresentKeys(post)}

\* the items of the page last fetched
LastPage == ExtractPosts(run.fn, feed_data[1])

\* C1: no two items of the list get_user_feed / get_video_feed returns share
\* a dedupe key: the same trimmed 100-character text prefix, the same
\* extracted image URL or the same identifier key.
C1_NoSharedDedupeKey ==
  run.pc = "returned" =>
    \A i, j \in {k \in 1..Len(run.result[1]) : PresentKeys(run.result[1][k]) # {}} :
      i < j => ~SharesKey(run.result[1][i], run.result[1][j])

\* a returned list of two items or more, whose last page held an item that
\* shares a key with an item of the list and was left out
C1_Witness ==
  /\ run.pc = "returned"
  /\ Len(run.result[1]) >= 2
  /\ \E i \in 1..Len(LastPage) :
       /\ \A j \in 1..Len(run.result[1]) : run.result[1][j] # LastPage[i]
       /\ \E j \in 1..Len(run.result[1]) : SharesKey(LastPage[i], run.result[1][j])

\* C2: whenever max_items = k is supplied (any integer k >= 0, 0 included)
\* the returned list has at most k items.
C2_AtMostMaxItems ==
  (run.pc = "returned" /\ run.max_items # NoLimit) =>
    Len(run.result[1]) <= run.max_items[1]

\* C3: for max_items = k >= 1, if the same run without max_items returns at
\* least k items, the run with max_items = k returns exactly k items.
C3_ExactlyMaxItems ==
  (/\ run.pc = "returned"
   /\ unb.pc = "returned"
   /\ run.max_items[1] >= 1
   /\ Len(unb.result[1]) >= run.max_items[1])
  => Len(run.result[1]) = run.max_items[1]

\* the unlimited run returns more than the limit of the limited one
C3_Witness ==
  /\ run.pc = "returned"
  /\ unb.pc = "returned"
  /\ run.max_items = <<2>>
  /\ Len(unb.result[1]) > 2
  /\ Len(run.result[1]) = 2

\* C4: a run makes at most 50 page fetches, whatever upstream returns.
C4_AtMostMaxPagesFetches == fetches <= MaxPages

\* the run ended by the page bound: the 50th response still carried a cursor
C4_Witness ==
  /\ run.pc = "returned"
  /\ fetches = MaxPages
  /\ Truthy(ExtractNextMaxId(feed_data[1]))

\* the outcome of the last HTTP request of the get call was the status s
LastStatus(s) ==
  /\ call.http # <<>>
  /\ call.http[1].ev = "response"
  /\ call.http[1].status = s

\* no time.sleep followed the last request
NoSleepAfterLast == Len(call.sleeps) = call.sent - 1

\* C5: a 404 answer makes get raise ValueError "Resource not found" at
\* once, on whichever attempt it arrives: no further request, no sleep.
C5_NotFoundRaisedAtOnce ==
  LastStatus(404) =>
    /\ call.pc = "raised"
    /\ call.error = <<NotFoundError>>
    /\ NoSleepAfterLast

\* C6: a 400, 401 or 403 answer makes get raise the bad request /
\* authentication failed error at once: no further request, no sleep.
C6_PermanentRaisedAtOnce ==
  /\ LastStatus(400) =>
       (call.pc = "raised" /\ call.error = <<BadRequestError>> /\ NoSleepAfterLast)
  /\ (LastStatus(401) \/ LastStatus(403)) =>
       (call.pc = "raised" /\ call.error = <<AuthError>> /\ NoSleepAfterLast)

\* C7: when every one of the N attempts of a get call is answered 429, get
\* makes exactly N requests and raises "Rate limit exceeded".
C7_RateLimitedAfterBudget ==
  (call.pc = "raised" /\ call.retries >= 1 /\ call.all429) =>
    (call.sent = call.retries /\ call.error = <<RateLimitError>>)

\* C8: a page fetch that raises makes the aggregation call raise that same
\* error and return no list, on the first page or after pages were merged.
C8_FetchErrorPropagates ==
  call.pc = "raised" =>
    (run.pc = "raised" /\ run.error = call.error /\ run.result = <<>>)

\* the fetch raised after items of earlier pages had been accumulated
C8_Witness ==
  /\ call.pc = "raised"
  /\ run.pc = "raised"
  /\ fetches >= 2
  /\ run.all_posts # <<>>

\* every item of the page is the duplicate of an item seen before the page
AllAlreadySeen(posts, seen) ==
  /\ posts # <<>>
  /\ \A i \in 1..Len(posts) : posts[i].isdict /\ StoredKeys(posts[i]) \cap seen # {}

\* C9: a page of one item or more, all duplicates of items already seen,
\* ends the run after that page, with or without a next cursor in the
\* response, and the result is the items accumulated before that page.
C9_DuplicatePageEndsRun ==
  [][(/\ run.pc = "loop"
      /\ run'.pc # "raised"
      /\ fetches' = fetches + 1
      /\ AllAlreadySeen(ExtractPosts(run.fn, feed_data'[1]), run.seen_ids))
     => (run'.pc = "returned" /\ run'.result[1] = run.all_posts)]_vars

\* the second page repeated the item of the first and carried a cursor; the
\* run returned the one item
C9_Witness ==
  /\ run.pc = "returned"
  /\ run.max_items = NoLimit
  /\ fetches = 2
  /\ Len(run.result[1]) = 1
  /\ LastPage # <<>>
  /\ \A i \in 1..Len(LastPage) : SharesKey(LastPage[i], run.result[1][1])
  /\ Truthy(ExtractNextMaxId(feed_data[1]))

\* the accumulator after the page r is merged into it
Merged(st, r) ==
  st.all_posts \o DedupePass(ExtractPosts(st.fn, r), NoPosts(st.seen_ids)).new_posts

\* C10: with max_items = k >= 1, once the accumulator holds k items or more
\* after a page is merged, no further page is fetched, cursor or not, and
\* the first k accumulated items are returned.
C10_StopsAtMaxItems ==
  [][(/\ run.pc = "loop"
      /\ run'.pc # "raised"
      /\ fetches' = fetches + 1
      /\ run.max_items # NoLimit
      /\ run.max_items[1] >= 1
      /\ Len(Merged(run, feed_data'[1])) >= run.max_items[1])
     => (/\ run'.pc = "returned"
         /\ run'.result[1] = Prefix(Merged(run, feed_data'[1]), run.max_items[1]))]_vars

\* a page of two unrelated items with a cursor, max_items = 1: the first
\* item alone is returned
C10_Witness ==
  /\ run.pc = "returned"
  /\ run.max_items = <<1>>
  /\ fetches = 1
  /\ Len(LastPage) = 2
  /\ ~SharesKey(LastPage[1], LastPage[2])
  /\ run.result[1] = <<LastPage[1]>>
  /\ Truthy(ExtractNextMaxId(feed_data[1]))

\* every object with a "media" key replaced by the value under it, every
\* other item as it is
MediaOrItem(l) ==
  [i \in 1..Len(l) |-> IF l[i].isdict /\ l[i].media # <<>> THEN l[i].media[1] ELSE l[i]]

\* C11: in every response shape a normalizer reads (bare array, data array,
\* data.items, top-level items, the named fields) an item that is an object
\* with a "media" key is replaced by the value under "media" and any other
\* item is kept as it is.
C11_MediaUnwrappedInEveryShape ==
  run.pc = "extracted" =>
    \A shape \in ShapesOf(run.fn), l \in NormLists :
      feed_data[1] = ShapedResp(shape, l) => run.all_posts = MediaOrItem(l)

\* the last request of the get call was answered 2xx with a JSON body
LastIsJson ==
  /\ call.http # <<>>
  /\ call.http[1].ev = "response"
  /\ ~RaisesForStatus(call.http[1])
  /\ call.http[1].json

\* C12: one call get(endpoint, params, retries = N) makes at most N HTTP
\* attempts; the first attempt answered with a successful JSON body is the
\* last one, and get returns that body's parsed value.
C12_AtMostRetriesAttempts ==
  /\ call.sent <= call.retries
  /\ LastIsJson => (call.pc = "returned" /\ call.value = <<call.http[1].body>>)
  /\ call.pc = "returned" => LastIsJson

\* the second attempt succeeded with an attempt of the budget left unused
C12_Witness ==
  /\ call.pc = "returned"
  /\ call.sent = 2
  /\ call.retries = 3
  /\ call.value = <<call.http[1].body>>
  /\ call.value[1] # BlankResp

\* C13: no rate-limit delay precedes the first page fetch of a run, and
\* exactly one 3-second delay lies between every two consecutive page
\* fetches, before the later one.
C13_DelayBetweenFetches ==
  /\ slept = IF fetches = 0 THEN 0 ELSE 3 * (fetches - 1)
  /\ run.pc = "loop" => fetches = run.page

\* three pages fetched, two delays slept
C13_Witness == fetches = 3 /\ slept = 6 /\ run.pc = "loop"

\* a step the call st takes when it runs alone: one iteration from its own
\* locals, on a response upstream has for its cursor or on a fetch error
StepsAlone(st, next) ==
  /\ st.pc = "loop"
  /\ \/ \E r \in BodiesFor(st.current_max_id, st.page) : next = IterationBody(st, r)
     \/ \E e \in FeedFetchErrors : next = FetchRaised(st, e)

C15_ReturnsLastObservedCursor ==
  (run.pc = "returned" /\ feed_data # <<>> /\ Truthy(ExtractNextMaxId(feed_data[1])))
  => run.result[2] = ExtractNextMaxId(feed_data[1])

\* C16: after the attempt with 0-based index a is answered 429, a not being
\* the last attempt, the client sleeps exactly 2^a seconds before the next
\* attempt, and the 429 has used one attempt of the budget.
C16_RateLimitBackoffDoubles ==
  (call.pc = "running" /\ LastStatus(429)) =>
    /\ call.attempt = call.sent
    /\ Len(call.sleeps) = call.sent
    /\ call.sleeps[call.sent] = 2 ^ (call.sent - 1)

\* a timeout, a connection failure, or an HTTP error status other than 400,
\* 401, 403, 404 and 429
Transient(h) ==
  \/ h.ev \in {"timeout", "connection"}
  \/ h.ev = "response" /\ RaisesForStatus(h) /\ h.status \notin {400, 401, 403, 404, 429}

\* C17: an attempt that fails with a timeout, a connection failure or such
\* an HTTP status is followed by a 1-second sleep and another attempt while
\* attempts remain; when it is the last attempt of the budget get raises a
\* RequestException, not a ValueError.
C17_TransientRetriedThenRaised ==
  (call.http # <<>> /\ Transient(call.http[1])) =>
    IF call.sent < call.retries
    THEN /\ call.pc = "running"
         /\ call.attempt = call.sent
         /\ Len(call.sleeps) = call.sent
         /\ call.sleeps[call.sent] = 1
    ELSE /\ call.pc = "raised"
         /\ call.error[1].type = "RequestException"
         /\ Len(call.sleeps) = call.sent - 1

\* three attempts answered 500, a second slept after the first and the
\* second, the error raised after the third
C17_Witness ==
  /\ call.pc = "raised"
  /\ call.retries = 3
  /\ call.sent = 3
  /\ LastStatus(500)
  /\ call.sleeps = <<1, 1>>
  /\ call.error[1].type = "RequestException"

\* C18: a successful HTTP status whose body is not JSON makes get raise
\* ValueError "Invalid JSON response" on that attempt: the remaining
\* attempts are not used and no sleep follows.
C18_InvalidJsonRaisedAtOnce ==
  (/\ call.http # <<>>
   /\ call.http[1].ev = "response"
   /\ ~RaisesForStatus(call.http[1])
   /\ ~call.http[1].json)
  => (/\ call.pc = "raised"
      /\ call.error = <<InvalidJsonError>>
      /\ NoSleepAfterLast)

\* the first of three attempts got a body that is not JSON
C18_Witness ==
  /\ call.pc = "raised"
  /\ call.error = <<InvalidJsonError>>
  /\ call.retries = 3
  /\ call.sent = 1
  /\ call.sleeps = <<>>

\* C19: an item is dropped as a duplicate whenever any one of its present
\* keys was recorded by an earlier item of the run, even when its other
\* keys are new; an item none of whose present keys was recorded is kept.
C19_DroppedIffAKeyWasRecorded ==
  run.post # <<>> =>
    (run.is_duplicate <=> StoredKeys(run.post[1]) \cap run.seen_was # {})

\* C20: after the dedupe pass has processed an item, kept or dropped, every
\* present key of that item (text prefix, image URL, identifier) is in the
\* seen set.
C20_EveryPresentKeyRecorded ==
  run.post # <<>> => StoredKeys(run.post[1]) \subseteq run.acc.seen

\* the caption/text field of an item is absent, null or empty
NoCaptionText(post) ==
  \/ post.caption.kind = "null"
  \/ post.caption.kind \in {"dict", "str"} /\ ~Truthy(post.caption.text)
  \/ post.caption.kind = "absent" /\ ~Truthy(post.text)

\* an item with no caption/text, no extractable image URL and no identifier
Keyless(post) ==
  /\ post.isdict
  /\ NoCaptionText(post)
  /\ ~Truthy(extract_image_url(post))
  /\ ~Truthy(PostId(post))

\* C21: an item with no caption/text (absent, null or empty), no extractable
\* image URL and no identifier is never dropped as a duplicate, however many
\* such items the run has seen before.
C21_KeylessNeverDropped ==
  (run.post # <<>> /\ Keyless(run.post[1])) => ~run.is_duplicate

\* the response cut down to the first shape it carries in the order "data",
\* top-level "items", named fields
FirstShapeOnly(r) ==
  IF r.kind # "dict" THEN r
  ELSE IF r.data.kind \in {"dict", "list"} THEN [BlankResp EXCEPT !.data = r.data]
  ELSE IF r.items.kind # "absent" THEN [BlankResp EXCEPT !.items = r.items]
  ELSE r

\* C22: the three normalizers resolve the response shape in one fixed order,
\* "data", then top-level "items", then the named fields (posts, feed,
\* videos, reels); the first shape present decides the items, so a response
\* with both "items" and a named field yields the "items" array.
C22_FixedResolutionOrder ==
  run.pc = "extracted" =>
    run.all_posts = Normalizer(run.fn, FirstShapeOnly(feed_data[1]))

\* the response is no array and carries none of the fields a normalizer reads
NoShape(r) ==
  /\ r.kind # "list"
  /\ r.kind = "dict" =>
       /\ r.data.kind = "absent"
       /\ \A fld \in {r.items, r.posts, r.feed, r.videos, r.reels, r.edges} :
            fld.kind = "absent"

\* C23: whatever JSON value a page fetch returned (array, object, string,
\* number, null, object with a recognised field of an unexpected type), the
\* normalizing and dedupe steps raise no error, and a response of no
\* recognised shape contributes no item.
C23_NormalizeAndDedupeNeverRaise ==
  /\ run.pc # "raised"
  /\ (run.pc # "idle" /\ NoShape(feed_data[1])) => run.all_posts = <<>>

\* the first cursor of the response in the order of the eight places
FirstCursor(r) ==
  LET locs == <<r.next_max_id, r.data.paging_info.max_id, r.data.paging_info.next_max_id,
                r.data.next_max_id, r.data.max_id, r.pagination.next_max_id,
                r.pagination.next_cursor, r.pagination.max_id>>
      found == {i \in 1..Len(locs) : Truthy(locs[i])}
  IN IF r.kind # "dict" \/ found = {} THEN NoneVal
     ELSE locs[CHOOSE i \in found : \A j \in found : i <= j]

\* the page r, met with nothing accumulated, triggers the duplicate stop or
\* the max_items stop
StopsEarly(f, k, r) ==
  LET d == DedupePass(ExtractPosts(f, r), NoPosts({}))
  IN \/ ExtractPosts(f, r) # <<>> /\ DuplicateStop(d)
     \/ EnoughItems(k, d.new_posts)

\* the iteration ran to the cursor of its response
ReadCursor ==
  /\ run.pc \in {"loop", "returned"}
  /\ feed_data # <<>>
  /\ ~StopsEarly(run.fn, run.max_items, feed_data[1])

\* C24 as it is stated: after a page that triggers neither the duplicate
\* stop nor the max_items stop the run stops if the response carries no
\* cursor at any of the eight places, and otherwise goes on to fetch the
\* next page with the first cursor found in their order, unchanged.
C24_NextFetchWithFirstCursor ==
  ReadCursor =>
    IF ~Truthy(FirstCursor(feed_data[1])) THEN run.pc = "returned"
    ELSE run.pc = "loop" /\ run.current_max_id = FirstCursor(feed_data[1])

\* C24 amended: the same, unless the page was the 50th of the run, after
\* which the run stops with or without a cursor.
C24_NextFetchUnlessLastPage ==
  ReadCursor =>
    IF ~Truthy(FirstCursor(feed_data[1])) THEN run.pc = "returned"
    ELSE \/ /\ run.pc = "loop"
            /\ run.page < MaxPages
            /\ run.current_max_id = FirstCursor(feed_data[1])
         \/ run.pc = "returned" /\ run.page = MaxPages - 1

\* a first page with cursors at the last five places only: the run goes on
\* with the one under data.next_max_id
C24_Witness ==
  /\ run.pc = "loop"
  /\ run.page = 1
  /\ feed_data[1] =
       CursorResp([j \in CursorPlaces |-> IF j >= 4 THEN CursorOf(j) ELSE Absent], <<ItA>>)
  /\ run.current_max_id = CursorOf(4)

\* s is t with some of its elements left out
RECURSIVE IsSubseq(_, _)
IsSubseq(s, t) ==
  \/ s = <<>>
  \/ /\ t # <<>>
     /\ IF Head(s) = Head(t) THEN IsSubseq(Tail(s), Tail(t)) ELSE IsSubseq(s, Tail(t))

\* C25: the returned list is in first-seen order.  Every page leaves the
\* accumulator as the accumulator before it followed by items of that page
\* in the page's order (so the list is a subsequence of the pages'
\* normalized items concatenated in fetch order, and the accumulator after
\* a page extends the one before it as a prefix), and what is returned is
\* the accumulator.
C25_FirstSeenOrder ==
  [][(/\ run.pc = "loop"
      /\ run'.pc # "raised"
      /\ fetches' = fetches + 1)
     => (/\ Len(run'.all_posts) >= Len(run.all_posts)
         /\ SubSeq(run'.all_posts, 1, Len(run.all_posts)) = run.all_posts
         /\ IsSubseq(SubSeq(run'.all_posts, Len(run.all_posts) + 1, Len(run'.all_posts)),
                     ExtractPosts(run.fn, feed_data'[1]))
         /\ run'.pc = "returned" => run'.result[1] = run'.all_posts)]_vars

\* two pages: the first item of the second page was dropped as a duplicate
\* and its second item follows the item of the first page in the result
C25_Witness ==
  /\ run.pc = "returned"
  /\ fetches = 2
  /\ Len(LastPage) = 2
  /\ Len(run.result[1]) = 2
  /\ run.result[1][2] = LastPage[2]
  /\ run.result[1][1] # LastPage[1]
  /\ SharesKey(run.result[1][1], LastPage[1])

\* the run has returned or raised; with no run, the get call has
Ended ==
  IF run.pc = "idle" THEN call.pc \in {"returned", "raised"}
  ELSE run.pc \in {"returned", "raised"}

\* C26: when every HTTP request is answered or fails in the end, every run
\* of get_user_feed / get_video_feed returns or raises in the end, also
\* against an upstream that serves a cursor and new items on every page for
\* ever, and every call of get ends, within its budget of attempts.
C26_EveryRunEnds == <>(Ended /\ call.sent <= call.retries)

\* the run ended by the page bound with one new item from each of the 50
\* pages, every one carrying a cursor
C26_Witness ==
  /\ run.pc = "returned"
  /\ fetches = MaxPages
  /\ Len(run.all_posts) = MaxPages
  /\ Truthy(ExtractNextMaxId(feed_data[1]))

\* the endpoints requested so far, in order
Asked ==
  LET reqs == SelectSeq(run.log, LAMBDA e : e.ev = "request")
  IN [i \in 1..Len(reqs) |-> reqs[i].endpoint]

\* C27: get_user_info requests the profile endpoint only after
\* user_id_by_username has returned a user ID, and with exactly that ID; one
\* delay of 1.5 seconds lies between two consecutive requests; a numeric
\* identifier is resolved by username_by_id, then user_id_by_username, then
\* the profile, any other by user_id_by_username, then the profile; and
\* when a resolution returns no value ValueError is raised and the profile
\* endpoint is not requested.
C27_ProfileAfterResolvedId ==
  LET log == run.log
      at == 1..Len(log)
      order == IF IsDigit(run.identifier_clean)
               THEN <<"username_by_id", "user_id_by_username", "profile">>
               ELSE <<"user_id_by_username", "profile">>
  IN /\ \A i \in at :
          (log[i].ev = "request" /\ log[i].endpoint = "profile") =>
            \E j \in 1..(i - 1) :
              /\ log[j].ev = "returned"
              /\ log[j].endpoint = "user_id_by_username"
              /\ Truthy(log[j].arg)
              /\ log[j].arg = log[i].arg
     /\ \A i, j \in at :
          (/\ i < j
           /\ log[i].ev = "request"
           /\ log[j].ev = "request"
           /\ \A k \in (i + 1)..(j - 1) : log[k].ev # "request")
          => /\ Cardinality({k \in (i + 1)..(j - 1) : log[k].ev = "sleep"}) = 1
             /\ \A k \in (i + 1)..(j - 1) : log[k].ev = "sleep" => log[k].secs = InfoDelay
     /\ Len(Asked) <= Len(order)
     /\ Asked = SubSeq(order, 1, Len(Asked))
     /\ \A j \in at :
          (log[j].ev = "returned" /\ ~Truthy(log[j].arg)) =>
            /\ run.pc = "raised"
            /\ run.error = <<"ValueError">>
            /\ \A i \in at : log[i].endpoint # "profile"

\* a numeric identifier resolved to a username and that to a user ID, with
\* which the profile was requested and returned
C27_Witness ==
  /\ run.pc = "returned"
  /\ IsDigit(run.identifier_clean)
  /\ Asked = <<"username_by_id", "user_id_by_username", "profile">>
  /\ run.log[Len(run.log)].arg = <<"7">>

\* the items of the page the loop went through before the one it ended last
Before ==
  SubSeq(feed_data[1].list, 1, Len(feed_data[1].list) - Len(run.posts) - 1)

\* C28: dedupe keys of different kinds never match each other.  An item is
\* dropped only for a key it shares in kind and value with an earlier item:
\* a text equal to the image URL of another item or of the item itself, or
\* to "id_" and another item's identifier, does not drop it.
C28_KeysOfOneKindOnly ==
  (run.post # <<>> /\ run.is_duplicate) =>
    \E i \in 1..Len(Before) : SharesKey(Before[i], run.post[1])

\* C29: get_user_reels never raises.  It makes one fetch, after one delay
\* of 2 seconds, and returns the items of the response, or the empty list
\* when the fetch raised, whatever the error; the empty list is also what a
\* response without reels gives.
C29_ReelsNeverRaises ==
  /\ run.pc # "raised"
  /\ run.pc = "returned" =>
       /\ fetches = 1
       /\ slept = ReelsDelay
       /\ run.result = IF call.pc = "raised" THEN << <<>> >> ELSE <<ExtractReels(feed_data[1])>>

\* the fetch raised and the empty list was returned
C29_Witness ==
  /\ run.fn = "get_user_reels"
  /\ run.pc = "returned"
  /\ call.pc = "raised"
  /\ call.error[1].type = "RequestException"
  /\ run.result = << <<>> >>

\* a page fetch returned a response that normalizes to no item and carries
\* a cursor, max_items not being reached
EmptyPageWithCursor ==
  /\ run.pc = "loop"
  /\ run'.pc # "raised"
  /\ fetches' = fetches + 1
  /\ ExtractPosts(run.fn, feed_data'[1]) = <<>>
  /\ Truthy(ExtractNextMaxId(feed_data'[1]))
  /\ ~EnoughItems(run.max_items, run.all_posts)

\* the page left the accumulator and the seen set as they were
PageLeftNoTrace ==
  /\ run'.all_posts = run.all_posts
  /\ run'.seen_ids = run.seen_ids

\* C30 as it is stated: a page whose response normalizes to zero items
\* never triggers the duplicate stop; if the response carries a cursor the
\* run goes on to fetch the next page with it, accumulator and seen set
\* unchanged by that page.
C30_EmptyPageGoesOn ==
  [][EmptyPageWithCursor =>
       (/\ run'.pc = "loop"
        /\ run'.current_max_id = ExtractNextMaxId(feed_data'[1])
        /\ PageLeftNoTrace)]_vars

\* C30 amended: the same, unless the page was the 50th of the run, after
\* which the run returns what it accumulated.
C30_EmptyPageGoesOnUnlessLast ==
  [][EmptyPageWithCursor =>
       (/\ PageLeftNoTrace
        /\ IF fetches' < MaxPages
           THEN /\ run'.pc = "loop"
                /\ run'.current_max_id = ExtractNextMaxId(feed_data'[1])
           ELSE /\ run'.pc = "returned"
                /\ run'.result[1] = run.all_posts)]_vars

\* after one item, a second page without items and with a cursor: the run
\* is about to fetch a third page
C30_Witness ==
  /\ run.pc = "loop"
  /\ fetches = 2
  /\ LastPage = <<>>
  /\ Len(run.all_posts) = 1
  /\ run.current_max_id = ExtractNextMaxId(feed_data[1])

====
